---- MODULE Spec2Model ----
(***************************************************************************)
(* Model of pasty-rs: UnauthenticatedClient / AuthenticatedClient          *)
(* (src/src/client.rs), the wire records (src/src/model.rs) and the error  *)
(* type (src/src/errors.rs).                                               *)
(*                                                                         *)
(* Strings the code computes with (host strings, paste ids, tokens, URL    *)
(* parts) are sequences of one-character strings; strings the code only    *)
(* carries around (paste content, JSON string values) are TLA+ strings.    *)
(***************************************************************************)
EXTENDS Integers, Sequences, FiniteSets, TLC

\* clients: the client values the caller holds, one per slot
\* calls:   the calls (futures) the caller has started and not yet dropped
VARIABLES clients, calls

vars == <<clients, calls>>

(***************************************************************************)
(* Bounds of the model.                                                    *)
(***************************************************************************)
MaxClients == 2
MaxCalls == 2

(***************************************************************************)
(* Option<T>                                                               *)
(***************************************************************************)
NoneV == [some |-> FALSE]
Some(x) == [some |-> TRUE, val |-> x]

(***************************************************************************)
(* Characters                                                              *)
(***************************************************************************)
Alpha == {"a", "b", "h", "p", "t", "x", "i", "v", "s", "e", "n", "f", "o"}
Digit == {"0", "2", "8"}
Slash == {"/", "\\"}

\* Index of the first character of s that lies in cs, Len(s) + 1 if none does.
FirstIn(s, cs) ==
    IF \E i \in 1..Len(s) : s[i] \in cs
    THEN CHOOSE i \in 1..Len(s) : s[i] \in cs /\ \A j \in 1..(i - 1) : s[j] \notin cs
    ELSE Len(s) + 1

From(s, i) == SubSeq(s, i, Len(s))
Upto(s, i) == SubSeq(s, 1, i)

(***************************************************************************)
(* url::Url, as reqwest and the url crate compute it.                      *)
(***************************************************************************)
Http == <<"h", "t", "t", "p">>
SpecialSchemes == {Http}
DefaultPort(scheme) == IF scheme = Http THEN <<"8", "0">> ELSE <<>>

\* The parser drops tab and newline characters anywhere in its input ...
RECURSIVE StripTabNl(_)
StripTabNl(s) ==
    IF s = <<>> THEN <<>>
    ELSE IF Head(s) \in {"\t", "\n", "\r"} THEN StripTabNl(Tail(s))
    ELSE <<Head(s)>> \o StripTabNl(Tail(s))

\* ... and leading and trailing C0-control-or-space characters.
RECURSIVE TrimLeft(_)
TrimLeft(s) == IF s # <<>> /\ Head(s) = " " THEN TrimLeft(Tail(s)) ELSE s

RECURSIVE TrimRight(_)
TrimRight(s) ==
    IF s # <<>> /\ s[Len(s)] = " " THEN TrimRight(Upto(s, Len(s) - 1)) ELSE s

UrlInput(s) == StripTabNl(TrimRight(TrimLeft(s)))

\* Percent-encoding of the path set; of the characters modelled only the
\* space is in it.
RECURSIVE PercentEncode(_)
PercentEncode(s) ==
    IF s = <<>> THEN <<>>
    ELSE IF Head(s) = " " THEN <<"%", "2", "0">> \o PercentEncode(Tail(s))
    ELSE <<Head(s)>> \o PercentEncode(Tail(s))

\* Path state of the URL parser: rest is the input after the leading slash,
\* buf the segment being read, path the segments read so far.
RECURSIVE PathSegments(_, _, _)
PathSegments(rest, buf, path) ==
    IF rest # <<>> /\ Head(rest) \notin Slash
    THEN PathSegments(Tail(rest), Append(buf, Head(rest)), path)
    ELSE LET atEnd == rest = <<>>
             shortened == IF path = <<>> THEN path ELSE Upto(path, Len(path) - 1)
             next == IF buf = <<".", ".">>
                     THEN IF atEnd THEN Append(shortened, <<>>) ELSE shortened
                     ELSE IF buf = <<".">>
                     THEN IF atEnd THEN Append(path, <<>>) ELSE path
                     ELSE Append(path, PercentEncode(buf))
         IN IF atEnd THEN next ELSE PathSegments(Tail(rest), <<>>, next)

\* Path, query and fragment of an input that starts with a slash (or is
\* empty, which a special scheme reads as "/").
ParsePathQueryFragment(s) ==
    LET hash == FirstIn(s, {"#"})
        beforeHash == Upto(s, hash - 1)
        qm == FirstIn(beforeHash, {"?"})
        pathPart == Upto(beforeHash, qm - 1)
    IN [path |-> PathSegments(IF pathPart = <<>> THEN <<>> ELSE Tail(pathPart), <<>>, <<>>),
        query |-> IF qm > Len(beforeHash) THEN NoneV
                  ELSE Some(PercentEncode(From(beforeHash, qm + 1))),
        fragment |-> IF hash > Len(s) THEN NoneV
                     ELSE Some(PercentEncode(From(s, hash + 1)))]

UrlErr(e) == [ok |-> FALSE, err |-> e]
UrlOk(u) == [ok |-> TRUE, url |-> u]

RECURSIVE SkipSlashes(_)
SkipSlashes(s) == IF s # <<>> /\ Head(s) \in Slash THEN SkipSlashes(Tail(s)) ELSE s

\* host[:port] followed by path, query and fragment.
ParseAuthority(scheme, s) ==
    LET stop == FirstIn(s, {"/", "\\", "?", "#"})
        authority == Upto(s, stop - 1)
        colon == FirstIn(authority, {":"})
        host == Upto(authority, colon - 1)
        port == From(authority, colon + 1)
        pqf == ParsePathQueryFragment(From(s, stop))
    IN IF host = <<>> THEN UrlErr("EmptyHost")
       ELSE IF \E i \in 1..Len(host) : host[i] \notin Alpha \cup Digit \cup {".", "-"}
       THEN UrlErr("InvalidDomainCharacter")
       ELSE IF \E i \in 1..Len(port) : port[i] \notin Digit
       THEN UrlErr("InvalidPort")
       ELSE UrlOk([scheme |-> scheme, has_host |-> TRUE, host |-> host,
                   port |-> IF port = <<>> \/ port = DefaultPort(scheme)
                            THEN NoneV ELSE Some(port),
                   path |-> pqf.path, query |-> pqf.query,
                   fragment |-> pqf.fragment])

\* Url::parse
UrlParse(str) ==
    LET s == UrlInput(str)
        colon == FirstIn(s, {":"})
        scheme == Upto(s, colon - 1)
        rest == From(s, colon + 1)
    IN IF \/ colon > Len(s)
          \/ scheme = <<>>
          \/ scheme[1] \notin Alpha
          \/ \E i \in 1..Len(scheme) : scheme[i] \notin Alpha \cup Digit \cup {"+", "-", "."}
       THEN UrlErr("RelativeUrlWithoutBase")
       ELSE IF scheme \in SpecialSchemes
       THEN ParseAuthority(scheme, SkipSlashes(rest))
       ELSE IF Len(rest) >= 2 /\ Upto(rest, 2) = <<"/", "/">> /\ From(rest, 3) # <<>>
               /\ rest[3] \notin {"/", "?", "#"}
       THEN ParseAuthority(scheme, From(rest, 3))
       ELSE \* no authority: a path-only or cannot-be-a-base URL
            UrlOk([scheme |-> scheme, has_host |-> FALSE, host |-> <<>>,
                   port |-> NoneV, path |-> <<rest>>, query |-> NoneV,
                   fragment |-> NoneV])

\* Variant: the reference appended to the base URL's own path.
UrlJoin_Appended(base, reference) ==
    LET s == UrlInput(reference)
        pqf == ParsePathQueryFragment(s)
        dir == IF base.path # <<>> /\ base.path[Len(base.path)] = <<>>
               THEN Upto(base.path, Len(base.path) - 1) ELSE base.path
    IN IF ~base.has_host THEN UrlErr("RelativeUrlWithCannotBeABaseBase")
       ELSE UrlOk([scheme |-> base.scheme, has_host |-> TRUE, host |-> base.host,
                   port |-> base.port, path |-> dir \o pqf.path, query |-> pqf.query,
                   fragment |-> pqf.fragment])

\* Url::join, for the references the client passes: they start with a
\* single slash, so they are path-absolute.
UrlJoin(base, reference) ==
    LET s == UrlInput(reference)
        pqf == ParsePathQueryFragment(s)
    IN IF ~base.has_host THEN UrlErr("RelativeUrlWithCannotBeABaseBase")
       ELSE UrlOk([scheme |-> base.scheme, has_host |-> TRUE, host |-> base.host,
                   port |-> base.port, path |-> pqf.path, query |-> pqf.query,
                   fragment |-> pqf.fragment])

\* Variant: Url::parse alone, its error propagated as it is.
IntoUrl_ParseOnly(str) ==
    LET parsed == UrlParse(str)
    IN IF ~parsed.ok THEN [ok |-> FALSE, err |-> "UrlParse"]
       ELSE [ok |-> TRUE, url |-> parsed.url]

\* reqwest's IntoUrl for &str: Url::parse, then a host is required.
IntoUrl(str) ==
    LET parsed == UrlParse(str)
    IN IF ~parsed.ok THEN [ok |-> FALSE, err |-> "Reqwest"]
       ELSE IF ~parsed.url.has_host THEN [ok |-> FALSE, err |-> "Reqwest"]
       ELSE [ok |-> TRUE, url |-> parsed.url]

(***************************************************************************)
(* JSON values and the serde schema of src/src/model.rs.                   *)
(***************************************************************************)
JNull == [null |-> TRUE]
JStr(s) == [str |-> s]
JNum(n) == [num |-> n]
JBool(b) == [bool |-> b]
JObj(fields) == [obj |-> fields]

IsNull(v) == "null" \in DOMAIN v
IsStr(v) == "str" \in DOMAIN v
IsNum(v) == "num" \in DOMAIN v
IsBool(v) == "bool" \in DOMAIN v
IsObj(v) == "obj" \in DOMAIN v

DeErr == [ok |-> FALSE]
DeOk(v) == [ok |-> TRUE, val |-> v]

\* A field of type String / bool / usize / isize: required, of that type.
HasStr(o, k) == k \in DOMAIN o /\ IsStr(o[k])
HasBool(o, k) == k \in DOMAIN o /\ IsBool(o[k])
HasUnsigned(o, k) == k \in DOMAIN o /\ IsNum(o[k]) /\ o[k].num >= 0
HasSigned(o, k) == k \in DOMAIN o /\ IsNum(o[k])

\* A field of type Option<T>: a missing key and null both give None.
Absent(o, k) == k \notin DOMAIN o \/ IsNull(o[k])

\* #[derive(Serialize)] struct PfEncryption / Metadata
SerPfEncryption(p) == JObj([alg |-> JStr(p.alg), iv |-> JStr(p.iv)])

SerMetadata(m) ==
    JObj([pf_encryption |-> IF m.pf_encryption.some
                            THEN SerPfEncryption(m.pf_encryption.val)
                            ELSE JNull])

\* #[derive(Serialize)] struct CreatePasteRequest
SerCreatePasteRequest(r) ==
    JObj([content |-> JStr(r.content),
          metadata |-> IF r.metadata.some THEN SerMetadata(r.metadata.val) ELSE JNull])

\* #[derive(Deserialize)] struct PfEncryption
DePfEncryption(v) ==
    IF IsObj(v) /\ HasStr(v.obj, "alg") /\ HasStr(v.obj, "iv")
    THEN DeOk([alg |-> v.obj["alg"].str, iv |-> v.obj["iv"].str])
    ELSE DeErr

\* #[derive(Deserialize)] struct Metadata
DeMetadata(v) ==
    IF ~IsObj(v) THEN DeErr
    ELSE IF Absent(v.obj, "pf_encryption") THEN DeOk([pf_encryption |-> NoneV])
    ELSE LET p == DePfEncryption(v.obj["pf_encryption"])
         IN IF p.ok THEN DeOk([pf_encryption |-> Some(p.val)]) ELSE DeErr

\* #[derive(Deserialize)] struct Paste, from the fields of a JSON object
DePasteFields(o) ==
    IF ~(HasStr(o, "id") /\ HasStr(o, "content") /\ HasUnsigned(o, "created"))
    THEN DeErr
    ELSE LET m == IF Absent(o, "metadata") THEN DeOk(NoneV)
                  ELSE LET d == DeMetadata(o["metadata"])
                       IN IF d.ok THEN DeOk(Some(d.val)) ELSE DeErr
         IN IF ~m.ok THEN DeErr
            ELSE DeOk([id |-> o["id"].str, content |-> o["content"].str,
                       created |-> o["created"].num, metadata |-> m.val])

DePaste(v) == IF IsObj(v) THEN DePasteFields(v.obj) ELSE DeErr

\* Variant: the Paste read from a nested "paste" object (no flatten).
DeCreatedPaste_Nested(v) ==
    IF ~IsObj(v) \/ ~HasStr(v.obj, "modificationToken") \/ "paste" \notin DOMAIN v.obj
    THEN DeErr
    ELSE LET p == DePaste(v.obj["paste"])
         IN IF p.ok
            THEN DeOk([modification_token |-> v.obj["modificationToken"].str,
                       paste |-> p.val])
            ELSE DeErr

\* #[derive(Deserialize)] struct CreatedPaste: modificationToken, and the
\* Paste flattened into the same object.
DeCreatedPaste(v) ==
    IF ~IsObj(v) \/ ~HasStr(v.obj, "modificationToken") THEN DeErr
    ELSE LET p == DePasteFields(v.obj)
         IN IF p.ok
            THEN DeOk([modification_token |-> v.obj["modificationToken"].str,
                       paste |-> p.val])
            ELSE DeErr

\* #[derive(Deserialize)] struct ApplicationInformation
DeApplicationInformation(v) ==
    IF /\ IsObj(v)
       /\ HasBool(v.obj, "modificationTokens")
       /\ HasSigned(v.obj, "pasteLifetime")
       /\ HasBool(v.obj, "reports")
       /\ HasStr(v.obj, "version")
    THEN DeOk([modification_tokens |-> v.obj["modificationTokens"].bool,
               paste_lifetime |-> v.obj["pasteLifetime"].num,
               reports |-> v.obj["reports"].bool,
               version |-> v.obj["version"].str])
    ELSE DeErr

(***************************************************************************)
(* errors.rs                                                               *)
(***************************************************************************)
ErrorKinds == {"Reqwest", "UrlParse"}
Ok(v) == [ok |-> TRUE, val |-> v]
Err(kind) == [ok |-> FALSE, err |-> kind]
Unit == "()"

(***************************************************************************)
(* reqwest: request builder, response                                      *)
(***************************************************************************)
Bearer == <<"B", "e", "a", "r", "e", "r", " ">>

\* A header value may hold no control character but the tab.
ValidHeaderValue(s) == \A i \in 1..Len(s) : s[i] \notin {"\n", "\r"}

Builder(method, url) ==
    [ok |-> TRUE,
     req |-> [method |-> method, url |-> url, authorization |-> NoneV,
              content_type |-> NoneV, body |-> NoneV]]

\* RequestBuilder::json
Json(b, value) ==
    IF ~b.ok THEN b
    ELSE [b EXCEPT !.req.content_type = Some("application/json"),
                   !.req.body = Some(value)]

\* Variant: the token as the whole header value, without the scheme.
BearerAuth_NoScheme(b, token) ==
    IF ~b.ok THEN b
    ELSE IF ~ValidHeaderValue(token) THEN [ok |-> FALSE]
    ELSE [b EXCEPT !.req.authorization = Some(token)]

\* RequestBuilder::bearer_auth
BearerAuth(b, token) ==
    IF ~b.ok THEN b
    ELSE IF ~ValidHeaderValue(Bearer \o token) THEN [ok |-> FALSE]
    ELSE [b EXCEPT !.req.authorization = Some(Bearer \o token)]

\* RequestBuilder::build, and the ? after it
Build(b) == IF b.ok THEN Ok(b.req) ELSE Err("Reqwest")

\* Variant: only the 5xx statuses count as errors.
IsErrorStatus_ServerOnly(status) == status >= 500 /\ status < 600

\* Response::error_for_status fails on 4xx and 5xx.
IsErrorStatus(status) == status >= 400 /\ status < 600

RawBody(text) == [raw |-> text]
JsonBody(v) == [json |-> v]
IsJson(body) == "json" \in DOMAIN body

(***************************************************************************)
(* Inputs                                                                  *)
(***************************************************************************)
HttpH == Http \o <<":", "/", "/", "h">>

HttpH8 == HttpH \o <<":", "8">>

\* "", "h", "//h", "a:x", "http://", "http://h:x": no client
\* "http://h", "http://h:80", "http://h/b/?x", "http://h/b",
\* "http://h:8", "http://h:8/b/?x"
HostStrings ==
    { <<>>, <<"h">>, <<"/", "/", "h">>, <<"a", ":", "x">>, Http \o <<":", "/", "/">>,
      HttpH \o <<":", "x">>, HttpH, HttpH \o <<":", "8", "0">>,
      HttpH \o <<"/", "b", "/", "?", "x">>, HttpH \o <<"/", "b">>,
      HttpH8, HttpH8 \o <<"/", "b", "/", "?", "x">> }

\* the hosts of the clients whose calls are followed
CallHosts == {HttpH, HttpH8 \o <<"/", "b", "/", "?", "x">>}

\* "a", "a?b", ".."
Ids == { <<"a">>, <<"a", "?", "b">>, <<".", ".">> }

\* "t", and a token with a line break in it
Tokens == { <<"t">>, <<"t", "\n">> }

Contents == {"hello"}

PfAes == [alg |-> "AES", iv |-> "abc"]
Metadatas == {NoneV, Some([pf_encryption |-> NoneV]), Some([pf_encryption |-> Some(PfAes)])}

Statuses == {200, 304, 404, 500}

PasteFields ==
    [id |-> JStr("abc"), content |-> JStr("hello"), created |-> JNum(1000),
     metadata |-> JNull]
CreatedFields ==
    [id |-> JStr("abc"), content |-> JStr("hello"), created |-> JNum(1000),
     metadata |-> JNull, modificationToken |-> JStr("tok")]
CreatedNoIdFields ==
    [content |-> JStr("hello"), created |-> JNum(1000),
     metadata |-> JNull, modificationToken |-> JStr("tok")]
CreatedMetaFields ==
    [id |-> JStr("abc"), content |-> JStr("hello"), created |-> JNum(1000),
     metadata |-> SerMetadata([pf_encryption |-> Some(PfAes)]),
     modificationToken |-> JStr("tok")]
InfoFields ==
    [modificationTokens |-> JBool(TRUE), pasteLifetime |-> JNum(-1),
     reports |-> JBool(FALSE), version |-> JStr("1.0")]

Bodies ==
    { RawBody(""), RawBody("not json"), JsonBody(JObj(PasteFields)),
      JsonBody(JObj(CreatedFields)), JsonBody(JObj(CreatedNoIdFields)),
      JsonBody(JObj(CreatedMetaFields)), JsonBody(JObj(InfoFields)) }

(***************************************************************************)
(* client.rs: the clients                                                  *)
(***************************************************************************)
Slots == 1..MaxClients
CallIds == 1..MaxCalls

Free == [kind |-> "free"]

\* "/api/v2/info", "/api/v2/pastes", "/api/v2/pastes/"
ApiV2 == <<"/", "a", "p", "i", "/", "v", "2">>
InfoPath == ApiV2 \o <<"/", "i", "n", "f", "o">>
PastesPath == ApiV2 \o <<"/", "p", "a", "s", "t", "e", "s">>
PastePath(id) == PastesPath \o <<"/">> \o id

\* UnauthenticatedClient::new: the Result the caller gets. `from` records
\* the argument.
New(host) ==
    LET u == IntoUrl(host)
    IN IF u.ok
       THEN [kind |-> "unauth", from |-> host,
             v |-> [client |-> "Client", host |-> u.url]]
       ELSE [kind |-> "err", from |-> host, err |-> u.err]

\* Variant: an authenticate that rejects the empty token.
Authenticate_Validating(slot, token) ==
    IF token = <<>>
    THEN [kind |-> "err", from |-> slot.from, err |-> "Reqwest"]
    ELSE [kind |-> "auth", from |-> slot.from, given |-> token,
          v |-> [client |-> slot.v, token |-> token]]

\* UnauthenticatedClient::authenticate: consumes self. `given` records the
\* argument.
Authenticate(slot, token) ==
    [kind |-> "auth", from |-> slot.from, given |-> token,
     v |-> [client |-> slot.v, token |-> token]]

\* AuthenticatedClient::inner
Inner(slot) == [kind |-> "unauth", from |-> slot.from, v |-> slot.v.client]

\* The UnauthenticatedClient a method of slot's client runs on: the client
\* itself, or inner() of an AuthenticatedClient.
Unauth(slot) == IF slot.kind = "auth" THEN Inner(slot).v ELSE slot.v

\* slot's client with another host
WithHost(self, host) ==
    IF self.kind = "auth"
    THEN [self EXCEPT !.v.client.host = host]
    ELSE [self EXCEPT !.v.host = host]

Live(slot) == slot.kind \in {"unauth", "auth"}

(***************************************************************************)
(* client.rs: the request each method builds, up to its first await        *)
(***************************************************************************)
ApplicationInformationRequest(self) ==
    LET u == UrlJoin(self.host, InfoPath)
    IN IF ~u.ok THEN Err("UrlParse") ELSE Build(Builder("GET", u.url))

PasteRequest(self, id) ==
    LET u == UrlJoin(self.host, PastePath(id))
    IN IF ~u.ok THEN Err("UrlParse") ELSE Build(Builder("GET", u.url))

CreatePasteRequest(self, content, metadata) ==
    LET u == UrlJoin(self.host, PastesPath)
    IN IF ~u.ok THEN Err("UrlParse")
       ELSE Build(Json(Builder("POST", u.url),
                       SerCreatePasteRequest([content |-> content, metadata |-> metadata])))

UpdatePasteRequest(self, id, content, metadata) ==
    LET u == UrlJoin(self.client.host, PastePath(id))
    IN IF ~u.ok THEN Err("UrlParse")
       ELSE Build(BearerAuth(
                Json(Builder("PATCH", u.url),
                     SerCreatePasteRequest([content |-> content, metadata |-> metadata])),
                self.token))

DeletePasteRequest(self, id) ==
    LET u == UrlJoin(self.client.host, PastePath(id))
    IN IF ~u.ok THEN Err("UrlParse")
       ELSE Build(BearerAuth(Builder("DELETE", u.url), self.token))

DecodingOps == {"application_information", "paste", "create_paste"}
DiscardingOps == {"update_paste", "delete_paste"}

(***************************************************************************)
(* client.rs: a call, from the method's entry to the value it returns      *)
(***************************************************************************)
Idle == [pc |-> "idle"]

\* The method's synchronous prefix: it builds the request and, unless that
\* failed, hands it to Client::execute and suspends.  sent counts the
\* requests handed to the transport.
Started(op, c, self, id, content, metadata, built) ==
    [pc |-> IF built.ok THEN "execute" ELSE "done",
     op |-> op, slot |-> c, self |-> self,
     id |-> id, content |-> content, metadata |-> metadata,
     req |-> IF built.ok THEN Some(built.val) ELSE NoneV,
     sent |-> IF built.ok THEN 1 ELSE 0,
     response |-> NoneV, decoded |-> FALSE,
     result |-> IF built.ok THEN NoneV ELSE Some(Err(built.err))]

Returned(call, response, result) ==
    [call EXCEPT !.pc = "done", !.response = response, !.result = Some(result)]

\* What Client::execute resolves to: a transport error, or a response.
TransportError == [ok |-> FALSE]
Responded(status, body) == [ok |-> TRUE, response |-> [status |-> status, body |-> body]]

\* Response::error_for_status, and the ? after it
ErrorForStatus(response) ==
    IF IsErrorStatus(response.status) THEN Err("Reqwest") ELSE Ok(response)

\* Variant: req executes the request once more after a transport error.
Req_Retrying(call, outcome) ==
    IF ~outcome.ok
    THEN IF call.sent < 2 THEN [call EXCEPT !.sent = call.sent + 1]
         ELSE Returned(call, NoneV, Err("Reqwest"))
    ELSE IF ~ErrorForStatus(outcome.response).ok
    THEN Returned(call, Some(outcome.response), Err("Reqwest"))
    ELSE Returned(call, Some(outcome.response), Ok(Unit))

\* Variant: req reads the body as JSON, as req_body does.
Req_Decoding(call, outcome) ==
    IF ~outcome.ok THEN Returned(call, NoneV, Err("Reqwest"))
    ELSE IF ~ErrorForStatus(outcome.response).ok
    THEN Returned(call, Some(outcome.response), Err("Reqwest"))
    ELSE Returned([call EXCEPT !.decoded = TRUE], Some(outcome.response),
                  IF IsJson(outcome.response.body) THEN Ok(Unit) ELSE Err("Reqwest"))

\* req: client.execute(req).await?.error_for_status()?; Ok(())
Req(call, outcome) ==
    IF ~outcome.ok THEN Returned(call, NoneV, Err("Reqwest"))
    ELSE IF ~ErrorForStatus(outcome.response).ok
    THEN Returned(call, Some(outcome.response), Err("Reqwest"))
    ELSE Returned(call, Some(outcome.response), Ok(Unit))

\* req_body up to its second await:
\* client.execute(req).await?.error_for_status()?.json()
ReqBodyExecute(call, outcome) ==
    IF ~outcome.ok THEN Returned(call, NoneV, Err("Reqwest"))
    ELSE IF ~ErrorForStatus(outcome.response).ok
    THEN Returned(call, Some(outcome.response), Err("Reqwest"))
    ELSE [call EXCEPT !.pc = "json", !.response = Some(outcome.response)]

\* The target type T of req_body::<T> in each method
Decode(op, v) ==
    CASE op = "application_information" -> DeApplicationInformation(v)
      [] op = "paste" -> DePaste(v)
      [] op = "create_paste" -> DeCreatedPaste(v)

\* req_body from its second await: .json().await?; Ok(res).  bodyRead is
\* whether the transport delivered the whole body.
ReqBodyJson(call, bodyRead) ==
    LET body == call.response.val.body
    IN IF ~bodyRead THEN Returned(call, call.response, Err("Reqwest"))
       ELSE IF ~IsJson(body)
       THEN Returned([call EXCEPT !.decoded = TRUE], call.response, Err("Reqwest"))
       ELSE LET d == Decode(call.op, body.json)
            IN Returned([call EXCEPT !.decoded = TRUE], call.response,
                        IF d.ok THEN Ok(d.val) ELSE Err("Reqwest"))

(***************************************************************************)
(* Actions                                                                 *)
(***************************************************************************)
\* The call slot a new call takes: the first idle one.
NextCall(k) ==
    /\ calls[k].pc = "idle"
    /\ \A j \in 1..(k - 1) : calls[j].pc # "idle"

\* A client is borrowed while a call on it has not returned.
Borrowed(c) == \E k \in CallIds : calls[k].pc \in {"execute", "json"} /\ calls[k].slot = c

NewClient(c, host) ==
    /\ clients[c].kind = "free"
    /\ clients' = [clients EXCEPT ![c] = New(host)]
    /\ UNCHANGED calls

\* #[derive(Clone)]
CloneClient(c, d) ==
    /\ Live(clients[c])
    /\ clients[d].kind = "free"
    /\ \A j \in 1..(d - 1) : clients[j].kind # "free"
    /\ clients' = [clients EXCEPT ![d] = clients[c]]
    /\ UNCHANGED calls

AuthenticateClient(c, token) ==
    /\ clients[c].kind = "unauth"
    /\ ~Borrowed(c)
    /\ clients' = [clients EXCEPT ![c] = Authenticate(clients[c], token)]
    /\ UNCHANGED calls

DropClient(c) ==
    /\ clients[c].kind # "free"
    /\ ~Borrowed(c)
    /\ clients' = [clients EXCEPT ![c] = Free]
    /\ UNCHANGED calls

ApplicationInformation(k, c) ==
    /\ NextCall(k)
    /\ Live(clients[c])
    /\ calls' = [calls EXCEPT ![k] =
                    Started("application_information", c, clients[c], <<>>, "", NoneV,
                            ApplicationInformationRequest(Unauth(clients[c])))]
    /\ UNCHANGED clients

\* Variant: paste keeps the joined URL as its client's host.
Paste_KeepingUrl(k, c, id) ==
    /\ NextCall(k)
    /\ Live(clients[c])
    /\ calls' = [calls EXCEPT ![k] =
                    Started("paste", c, clients[c], id, "", NoneV,
                            PasteRequest(Unauth(clients[c]), id))]
    /\ clients' = [clients EXCEPT ![c] =
                      WithHost(clients[c], UrlJoin(Unauth(clients[c]).host, PastePath(id)).url)]

Paste(k, c, id) ==
    /\ NextCall(k)
    /\ Live(clients[c])
    /\ calls' = [calls EXCEPT ![k] =
                    Started("paste", c, clients[c], id, "", NoneV,
                            PasteRequest(Unauth(clients[c]), id))]
    /\ UNCHANGED clients

CreatePaste(k, c, content, metadata) ==
    /\ NextCall(k)
    /\ Live(clients[c])
    /\ calls' = [calls EXCEPT ![k] =
                    Started("create_paste", c, clients[c], <<>>, content, metadata,
                            CreatePasteRequest(Unauth(clients[c]), content, metadata))]
    /\ UNCHANGED clients

UpdatePaste(k, c, id, content, metadata) ==
    /\ NextCall(k)
    /\ clients[c].kind = "auth"
    /\ calls' = [calls EXCEPT ![k] =
                    Started("update_paste", c, clients[c], id, content, metadata,
                            UpdatePasteRequest(clients[c].v, id, content, metadata))]
    /\ UNCHANGED clients

DeletePaste(k, c, id) ==
    /\ NextCall(k)
    /\ clients[c].kind = "auth"
    /\ calls' = [calls EXCEPT ![k] =
                    Started("delete_paste", c, clients[c], id, "", NoneV,
                            DeletePasteRequest(clients[c].v, id))]
    /\ UNCHANGED clients

\* Client::execute resolves.
ExecuteReturns(k, outcome) ==
    /\ calls[k].pc = "execute"
    /\ calls' = [calls EXCEPT ![k] =
                    IF calls[k].op \in DiscardingOps
                    THEN Req(calls[k], outcome)
                    ELSE ReqBodyExecute(calls[k], outcome)]
    /\ UNCHANGED clients

\* Response::json resolves.
JsonReturns(k, bodyRead) ==
    /\ calls[k].pc = "json"
    /\ calls' = [calls EXCEPT ![k] = ReqBodyJson(calls[k], bodyRead)]
    /\ UNCHANGED clients

\* The caller takes the returned value.
Finish(k) ==
    /\ calls[k].pc = "done"
    /\ calls' = [calls EXCEPT ![k] = Idle]
    /\ UNCHANGED clients

(***************************************************************************)
(* Spec: one caller that awaits each call before it starts the next, on a  *)
(* client built by new and on its clones.                                  *)
(***************************************************************************)
Outcomes == {TransportError} \cup {Responded(s, b) : s \in Statuses, b \in Bodies}

Sequential == \A k \in CallIds : calls[k].pc = "idle"

Init ==
    /\ \E h \in CallHosts : clients = [c \in Slots |-> IF c = 1 THEN New(h) ELSE Free]
    /\ calls = [k \in CallIds |-> Idle]

Next ==
    \/ \E c, d \in Slots : CloneClient(c, d)
    \/ \E c \in Slots, t \in Tokens : AuthenticateClient(c, t)
    \/ \E k \in CallIds, c \in Slots : Sequential /\ ApplicationInformation(k, c)
    \/ \E k \in CallIds, c \in Slots, id \in Ids : Sequential /\ Paste(k, c, id)
    \/ \E k \in CallIds, c \in Slots, content \in Contents, m \in Metadatas :
          Sequential /\ CreatePaste(k, c, content, m)
    \/ \E k \in CallIds, c \in Slots, id \in Ids, content \in Contents, m \in Metadatas :
          Sequential /\ UpdatePaste(k, c, id, content, m)
    \/ \E k \in CallIds, c \in Slots, id \in Ids : Sequential /\ DeletePaste(k, c, id)
    \/ \E k \in CallIds, o \in Outcomes : ExecuteReturns(k, o)
    \/ \E k \in CallIds, r \in BOOLEAN : JsonReturns(k, r)
    \/ \E k \in CallIds : Finish(k)

Spec == Init /\ [][Next]_vars

(***************************************************************************)
(* SpecNew: the caller builds clients from host strings.                   *)
(***************************************************************************)
InitNew ==
    /\ clients = [c \in Slots |-> Free]
    /\ calls = [k \in CallIds |-> Idle]

NextNew ==
    \/ \E c \in Slots, h \in HostStrings : NewClient(c, h)
    \/ \E c \in Slots : DropClient(c)

SpecNew == InitNew /\ [][NextNew]_vars

(***************************************************************************)
(* SpecConc: callers that run calls concurrently on a client and its       *)
(* clones.                                                                 *)
(***************************************************************************)
ConcIds == { <<"a">> }
ConcTokens == { <<"t">> }
ConcOutcomes == {TransportError, Responded(200, JsonBody(JObj(PasteFields)))}

InitConc ==
    /\ clients = [c \in Slots |-> IF c = 1 THEN New(HttpH) ELSE Free]
    /\ calls = [k \in CallIds |-> Idle]

NextConc ==
    \/ \E c, d \in Slots : CloneClient(c, d)
    \/ \E c \in Slots, t \in ConcTokens : AuthenticateClient(c, t)
    \/ \E k \in CallIds, c \in Slots, id \in ConcIds : Paste(k, c, id)
    \/ \E k \in CallIds, c \in Slots, id \in ConcIds : DeletePaste(k, c, id)
    \/ \E k \in CallIds, o \in ConcOutcomes : ExecuteReturns(k, o)
    \/ \E k \in CallIds : JsonReturns(k, TRUE)
    \/ \E k \in CallIds : Finish(k)

SpecConc == InitConc /\ [][NextConc]_vars

(***************************************************************************)
(* SpecAuth: the caller authenticates with any token and then updates and  *)
(* deletes pastes on a server that accepts or rejects the token.           *)
(***************************************************************************)
AuthTokens == { <<>>, <<"t">>, <<"t", "\n">> }
AuthOutcomes == {Responded(204, RawBody("")), Responded(401, RawBody("not json"))}

NextAuth ==
    \/ \E c, d \in Slots : CloneClient(c, d)
    \/ \E c \in Slots, t \in AuthTokens : AuthenticateClient(c, t)
    \/ \E k \in CallIds, c \in Slots, id \in ConcIds :
          Sequential /\ UpdatePaste(k, c, id, "hello", NoneV)
    \/ \E k \in CallIds, c \in Slots, id \in ConcIds : Sequential /\ DeletePaste(k, c, id)
    \/ \E k \in CallIds, o \in AuthOutcomes : ExecuteReturns(k, o)
    \/ \E k \in CallIds : Finish(k)

SpecAuth == Init /\ [][NextAuth]_vars

(***************************************************************************)
(* Properties                                                              *)
(***************************************************************************)
Active == {k \in CallIds : calls[k].pc # "idle"}
Done == {k \in CallIds : calls[k].pc = "done"}
Handed == {k \in Active : calls[k].req.some}
HostOf(call) == Unauth(call.self).host

SegApi == <<"a", "p", "i">>
SegV2 == <<"v", "2">>
SegInfo == <<"i", "n", "f", "o">>
SegPastes == <<"p", "a", "s", "t", "e", "s">>

\* scheme://host[:port] of `host`, followed by the path segments segs
AtOrigin(host, segs) ==
    [scheme |-> host.scheme, has_host |-> TRUE, host |-> host.host, port |-> host.port,
     path |-> segs, query |-> NoneV, fragment |-> NoneV]

Is2xx(status) == status \in 200..299
Is4xx5xx(status) == status \in 400..599

\* C1 as stated: a call that returned either succeeded, and then on a 2xx
\* response whose body (for the decoding operations) decoded to the expected
\* shape, or failed with one error of kind Reqwest or UrlParse; a transport
\* failure, every non-2xx status and a decoding failure give Reqwest.
C1_AsStated ==
    \A k \in Done :
        LET call == calls[k]
            r == call.result.val
        IN /\ call.result.some
           /\ r.ok =>
                /\ call.response.some
                /\ Is2xx(call.response.val.status)
                /\ call.op \in DecodingOps =>
                     /\ IsJson(call.response.val.body)
                     /\ Decode(call.op, call.response.val.body.json) = DeOk(r.val)
           /\ ~r.ok => r.err \in ErrorKinds
           /\ (call.req.some /\ ~call.response.some) => r = Err("Reqwest")
           /\ (call.response.some /\ ~Is2xx(call.response.val.status)) => r = Err("Reqwest")
           /\ (call.decoded /\ ~r.ok) => r = Err("Reqwest")

\* C1 amended: as C1, with "the status is not 4xx or 5xx" for "2xx": a call
\* that returned either succeeded, and then on a response whose status is
\* neither 4xx nor 5xx and whose body (for the decoding operations) decoded
\* to the expected shape, or failed with one error of kind Reqwest or
\* UrlParse; a transport failure, every 4xx and 5xx status and a decoding
\* failure give Reqwest, and so does a body that is not of the expected shape.
C1_OutcomeIsOkOrOneError ==
    \A k \in Done :
        LET call == calls[k]
            r == call.result.val
        IN /\ call.result.some
           /\ r.ok =>
                /\ call.response.some
                /\ ~Is4xx5xx(call.response.val.status)
                /\ call.op \in DecodingOps =>
                     /\ IsJson(call.response.val.body)
                     /\ Decode(call.op, call.response.val.body.json) = DeOk(r.val)
                /\ call.op \in DiscardingOps => r.val = Unit
           /\ ~r.ok => r.err \in ErrorKinds
           /\ (call.req.some /\ ~call.response.some) => r = Err("Reqwest")
           /\ (call.response.some /\ Is4xx5xx(call.response.val.status)) => r = Err("Reqwest")
           /\ (call.decoded /\ ~r.ok) => r = Err("Reqwest")
           /\ (call.decoded /\ ~IsJson(call.response.val.body)) => r = Err("Reqwest")

\* A call succeeded on a 304 response.
C1_Witness ==
    \E k \in Done :
        /\ calls[k].result.val.ok
        /\ calls[k].response.val.status = 304

\* C2 as stated: new(H) succeeds if and only if H parses as a URL, and the
\* error of a failed new is of kind UrlParse.
C2_AsStated ==
    \A c \in Slots :
        clients[c].kind \in {"unauth", "err"} =>
            /\ clients[c].kind = "unauth" <=> UrlParse(clients[c].from).ok
            /\ clients[c].kind = "err" => clients[c].err = "UrlParse"

\* C2 amended: new(H) succeeds if and only if H parses as a URL that has a
\* host, the client then holding the parsed URL; and when new(H) fails (the
\* empty string, a string with no scheme, a URL without a host) the error is
\* of kind Reqwest, not of kind UrlParse.
C2_NewSucceedsIffUrlWithHost ==
    \A c \in Slots :
        clients[c].kind \in {"unauth", "err"} =>
            LET parsed == UrlParse(clients[c].from)
            IN /\ clients[c].kind = "unauth" <=> (parsed.ok /\ parsed.url.has_host)
               /\ clients[c].kind = "unauth" => clients[c].v.host = parsed.url
               /\ clients[c].kind = "err" => clients[c].err = "Reqwest"
               /\ clients[c].from \in {<<>>, <<"h">>, <<"a", ":", "x">>} =>
                    clients[c].kind = "err"
               /\ clients[c].from = HttpH =>
                    /\ clients[c].kind = "unauth"
                    /\ clients[c].v.host = AtOrigin([scheme |-> Http, host |-> <<"h">>,
                                                     port |-> NoneV], << <<>> >>)

\* new failed on the empty string and on a URL without a host, and
\* succeeded on "http://h".
C2_Witness ==
    /\ \E c \in Slots : clients[c].kind = "err" /\ clients[c].from \in {<<>>, <<"a", ":", "x">>}
    /\ \E c \in Slots : clients[c].kind = "unauth" /\ clients[c].from = HttpH

\* C3: every request update_paste or delete_paste hands to the transport, on
\* the client authenticate(T) returned or on a clone of it, carries
\* Authorization: Bearer T, T being the string given to authenticate; and
\* the body and content type of update_paste's request are those of
\* create_paste's request for the same content and metadata.
C3_BearerTokenVerbatim ==
    \A k \in Handed :
        LET call == calls[k]
            req == call.req.val
        IN call.op \in DiscardingOps =>
            /\ call.self.kind = "auth"
            /\ req.authorization = Some(Bearer \o call.self.given)
            /\ call.op = "update_paste" =>
                 LET created == CreatePasteRequest(Unauth(call.self), call.content,
                                                   call.metadata).val
                 IN /\ req.body = created.body
                    /\ req.content_type = created.content_type
                    /\ req.body.some
                    /\ DOMAIN req.body.val.obj = {"content", "metadata"}

\* update_paste handed a request to the transport on a clone of the client
\* that authenticate("t") returned.
C3_Witness ==
    \E k \in Handed :
        /\ calls[k].op = "update_paste"
        /\ calls[k].slot # 1
        /\ calls[k].self.given = <<"t">>

\* C4 as stated: the request of paste(id) is a GET of the host's
\* scheme://host[:port] followed by the path /api/v2/pastes/{id}, the id
\* being the last path segment verbatim, with no query or fragment, no body
\* and no Authorization header, also through inner().
C4_AsStated ==
    \A k \in Handed :
        LET call == calls[k]
            req == call.req.val
        IN call.op = "paste" =>
            /\ req.method = "GET"
            /\ req.url = AtOrigin(HostOf(call), <<SegApi, SegV2, SegPastes, call.id>>)
            /\ req.body = NoneV
            /\ req.authorization = NoneV

\* C5: a call hands at most one request to the transport, whatever its
\* outcome: exactly one when the request was built, none otherwise; and a
\* call that failed has returned with that one request handed over.
C5_AtMostOneRequest ==
    \A k \in Active :
        LET call == calls[k]
        IN /\ call.sent <= 1
           /\ call.sent = 1 <=> call.req.some
           /\ (call.pc # "done") => ~call.result.some
           /\ (call.req.some /\ ~call.response.some /\ call.pc = "done") =>
                ~call.result.val.ok

\* A call failed, on a transport error or on a 500 status, after its one
\* request.
C5_Witness ==
    \E k \in Done :
        /\ ~calls[k].result.val.ok
        /\ calls[k].sent = 1
        /\ calls[k].response.some => calls[k].response.val.status = 500

\* C6 as stated: delete_paste(id) issues DELETE on the URL that
\* /api/v2/pastes/{id} joined against the host gives; on a 2xx status it
\* returns Ok(()) whatever the body, on any other status an error of kind
\* Reqwest, and it never decodes the body.
C6_AsStated ==
    \A k \in Handed :
        LET call == calls[k]
            req == call.req.val
        IN call.op = "delete_paste" =>
            /\ req.method = "DELETE"
            /\ req.url = UrlJoin(HostOf(call), PastePath(call.id)).url
            /\ ~call.decoded
            /\ (call.pc = "done" /\ call.response.some) =>
                 IF Is2xx(call.response.val.status)
                 THEN call.result.val = Ok(Unit)
                 ELSE call.result.val = Err("Reqwest")

\* C6 amended: as C6, with "4xx or 5xx" for "not 2xx": on a 4xx or 5xx
\* status delete_paste returns an error of kind Reqwest, on every other
\* status (2xx, and for instance 304) Ok(()) whatever the body; it never
\* decodes the body.
C6_DeleteChecksStatusOnly ==
    \A k \in Handed :
        LET call == calls[k]
            req == call.req.val
        IN call.op = "delete_paste" =>
            /\ req.method = "DELETE"
            /\ req.url = UrlJoin(HostOf(call), PastePath(call.id)).url
            /\ req.body = NoneV
            /\ ~call.decoded
            /\ call.pc \in {"execute", "done"}
            /\ (call.pc = "done" /\ call.response.some) =>
                 IF Is4xx5xx(call.response.val.status)
                 THEN call.result.val = Err("Reqwest")
                 ELSE call.result.val = Ok(Unit)

\* delete_paste returned Ok(()) on a 200 response whose body is not JSON.
C6_Witness ==
    \E k \in Done :
        /\ calls[k].op = "delete_paste"
        /\ calls[k].response.some
        /\ calls[k].response.val = [status |-> 200, body |-> RawBody("not json")]
        /\ calls[k].result.val = Ok(Unit)

\* The request a method builds from its arguments and its client alone.
RequestOf(op, self, id, content, metadata) ==
    CASE op = "application_information" -> ApplicationInformationRequest(Unauth(self))
      [] op = "paste" -> PasteRequest(Unauth(self), id)
      [] op = "create_paste" -> CreatePasteRequest(Unauth(self), content, metadata)
      [] op = "update_paste" -> UpdatePasteRequest(self.v, id, content, metadata)
      [] op = "delete_paste" -> DeletePasteRequest(self.v, id)

C7_ClientsUnchanged ==
    \A c \in Slots :
        /\ Live(clients[c]) =>
             /\ Live(clients'[c])
             /\ Unauth(clients'[c]) = Unauth(clients[c])
             /\ clients[c].kind = "auth" => clients'[c] = clients[c]
        /\ (~Live(clients[c]) /\ Live(clients'[c])) =>
             \E d \in Slots : Live(clients[d]) /\ clients'[c] = clients[d]

C7_RequestFromOwnCall ==
    \A k \in Active :
        LET call == calls[k]
            built == RequestOf(call.op, call.self, call.id, call.content, call.metadata)
        IN /\ call.pc # "done" => clients[call.slot] = call.self
           /\ call.req = IF built.ok THEN Some(built.val) ELSE NoneV
           /\ Unauth(call.self).host = IntoUrl(call.self.from).url
           /\ call.self.kind = "auth" => call.self.v.token = call.self.given

\* C7: under every interleaving of calls on a client and its clones, failed
\* ones included, a client keeps its host for ever and its token once it
\* has one, a clone holds what the original holds, and the request of each
\* call is the one its own arguments and its client's host and token give.
C7_ClientsImmutable == [][C7_ClientsUnchanged]_vars /\ []C7_RequestFromOwnCall

\* Two calls on two clones, one of which failed while the other is still
\* awaiting the transport.
C7_Witness ==
    \E j, k \in Active :
        /\ calls[j].slot # calls[k].slot
        /\ calls[j].pc = "done" /\ ~calls[j].result.val.ok
        /\ calls[k].pc = "execute"
        /\ calls[k].self.kind = "auth"

C8_AuthenticateStep ==
    \A c \in Slots :
        (clients[c].kind = "unauth" /\ clients'[c] # clients[c]) =>
            /\ clients'[c].kind = "auth"
            /\ Inner(clients'[c]).v = clients[c].v
            /\ clients'[c].v.token = clients'[c].given
            /\ calls' = calls

C8_AuthenticatedClientHolds ==
    /\ \A c \in Slots :
         clients[c].kind = "auth" =>
            /\ Inner(clients[c]).v.host = IntoUrl(clients[c].from).url
            /\ clients[c].v.token = clients[c].given
    /\ \A k \in Done :
         (calls[k].self.kind = "auth" /\ calls[k].response.some
            /\ calls[k].response.val.status = 401) =>
                /\ calls[k].op \in DiscardingOps
                /\ calls[k].result.val = Err("Reqwest")
    /\ \A k \in Done :
         (calls[k].self.kind = "auth" /\ ~calls[k].result.val.ok) =>
            calls[k].result.val = Err("Reqwest")

C9_CreatePasteFlat ==
    \A k \in Handed :
        LET call == calls[k]
            req == call.req.val
        IN call.op = "create_paste" =>
            /\ req.method = "POST"
            /\ req.url = AtOrigin(HostOf(call), <<SegApi, SegV2, SegPastes>>)
            /\ req.authorization = NoneV
            /\ req.body.some /\ IsObj(req.body.val)
            /\ DOMAIN req.body.val.obj = {"content", "metadata"}
            /\ req.body.val.obj["content"] = JStr(call.content)
            /\ ~call.metadata.some <=> IsNull(req.body.val.obj["metadata"])
            /\ (call.content = "hello" /\ call.metadata = NoneV) =>
                 req.body.val = JObj([content |-> JStr("hello"), metadata |-> JNull])
            /\ (/\ call.pc = "done" /\ call.decoded
                /\ Is2xx(call.response.val.status)
                /\ IsJson(call.response.val.body)) =>
                 LET o == call.response.val.body.json.obj
                     r == call.result.val
                 IN IF {"id", "content", "created", "modificationToken"} \subseteq DOMAIN o
                    THEN /\ r.ok
                         /\ r.val.modification_token = o["modificationToken"].str
                         /\ r.val.paste.id = o["id"].str
                         /\ r.val.paste.content = o["content"].str
                         /\ r.val.paste.created = o["created"].num
                         /\ Absent(o, "metadata") => r.val.paste.metadata = NoneV
                         /\ ~Absent(o, "metadata") =>
                              /\ r.val.paste.metadata.some
                              /\ SerMetadata(r.val.paste.metadata.val) = o["metadata"]
                    ELSE r = Err("Reqwest")

\* create_paste("hello", None) returned the CreatedPaste of the response
\* {"id":"abc","content":"hello","created":1000,"metadata":null,
\*  "modificationToken":"tok"}.
C9_Witness ==
    \E k \in Done :
        /\ calls[k].op = "create_paste"
        /\ calls[k].metadata = NoneV
        /\ calls[k].response.some
        /\ calls[k].response.val = [status |-> 200, body |-> JsonBody(JObj(CreatedFields))]
        /\ calls[k].result.val.ok
        /\ calls[k].result.val.val.modification_token = "tok"
        /\ calls[k].result.val.val.paste.id = "abc"

\* The host URLs of the clients new builds from HostStrings
HostUrls == {IntoUrl(h).url : h \in {g \in HostStrings : IntoUrl(g).ok}}

\* Those that differ from `host` in path and query only
SameOrigin(host) ==
    {u \in HostUrls : u.scheme = host.scheme /\ u.host = host.host /\ u.port = host.port}

\* C10: the URL of every request keeps the scheme, host and port of the host
\* URL, and its path, query and fragment are those of the operation's
\* /api/v2/... reference alone, /api/v2/info and /api/v2/pastes exactly:
\* nothing of the host URL's own path or query is kept, so host URLs that
\* differ in path or query only give the same request.
C10_HostPathReplaced ==
    \A k \in Handed :
        LET call == calls[k]
            url == call.req.val.url
            host == HostOf(call)
            reference == IF call.op = "application_information" THEN InfoPath
                         ELSE IF call.op = "create_paste" THEN PastesPath
                         ELSE PastePath(call.id)
            pqf == ParsePathQueryFragment(reference)
        IN /\ url.scheme = host.scheme /\ url.host = host.host /\ url.port = host.port
           /\ url.path = pqf.path /\ url.query = pqf.query /\ url.fragment = pqf.fragment
           /\ call.op = "application_information" =>
                url = AtOrigin(host, <<SegApi, SegV2, SegInfo>>)
           /\ call.op = "create_paste" => url = AtOrigin(host, <<SegApi, SegV2, SegPastes>>)
           /\ (call.op \in {"paste", "update_paste", "delete_paste"} /\ call.id = <<"a">>) =>
                url = AtOrigin(host, <<SegApi, SegV2, SegPastes, <<"a">> >>)
           /\ \A other \in SameOrigin(host) :
                RequestOf(call.op, WithHost(call.self, other), call.id, call.content,
                          call.metadata) = Ok(call.req.val)

\* update_paste sent its request on a client built from "http://h:8/b/?x".
C10_Witness ==
    \E k \in Handed :
        /\ calls[k].op = "update_paste"
        /\ calls[k].self.from = HttpH8 \o <<"/", "b", "/", "?", "x">>
        /\ HostOf(calls[k]).query = Some(<<"x">>)
        /\ calls[k].req.val.url.query = NoneV
        /\ calls[k].req.val.url.port = Some(<<"8">>)

====
